---- MODULE Spec2Model ----
(***************************************************************************)
(* State-machine model of the two services of the repository:              *)
(*   services/adspy/server.py            (the sponsored-ad scanner)        *)
(*   services/youtube-downloader/server.py (the media downloader)          *)
(* A behaviour is one run of one of the two server processes handling      *)
(* requests; `service` says which.  Text values are TLA+ strings and the   *)
(* code's substring / strip / comparison operations are computed on them.  *)
(***************************************************************************)
EXTENDS Integers, Sequences, FiniteSets, TLC

VARIABLES service, request, pc, all_ads, page_num, navLog, stratLog, found_ads,
          debug_info, scanBrowser, ads, capIdx, capBrowser, capLog,
          openPages, capFaults, response,
          dlReq, dlPc, dlInfo, dlFile, dlResp, files, dlLog, dlRunning,
          element, ad_out, url_parts, given_url, real_url

adspyVars == <<request, pc, all_ads, page_num, navLog, stratLog, found_ads,
               debug_info, scanBrowser, ads, capIdx, capBrowser, capLog,
               openPages, capFaults, response>>

ytdlVars == <<dlReq, dlPc, dlInfo, dlFile, dlResp, files, dlLog, dlRunning>>

\* one DOM element handed to extract_modern_ad_data, and what it returned;
\* one URL handed to extract_real_url (with the parts it was written from),
\* and what it returned
extractVars == <<element, ad_out, url_parts, given_url, real_url>>

vars == <<service, adspyVars, ytdlVars, extractVars>>

-----------------------------------------------------------------------------
(* Bounds of the model *)

\* how many landing-page captures of one request may fail
MaxCaptureFaults == 2

\* how many requests the downloader process handles in one run
MaxDlRequests == 2

\* how many freely chosen anchors an element holds besides its sitelink row
MaxAnchors == 2

\* how many query fields a URL handed to extract_real_url holds
MaxFields == 2

-----------------------------------------------------------------------------
(* Python values and string operations *)

None == "<None>"

\* Python `sub in s` on strings
Contains(s, sub) == \E i \in 1..(Len(s) - Len(sub) + 1) : SubSeq(s, i, i + Len(sub) - 1) = sub

\* Python s.startswith(pre)
StartsWith(s, pre) == Len(s) >= Len(pre) /\ SubSeq(s, 1, Len(pre)) = pre

\* index of the first occurrence of sub in s at or after position from, 0 if none
Find(s, sub, from) == LET hits == {i \in from..(Len(s) - Len(sub) + 1) : SubSeq(s, i, i + Len(sub) - 1) = sub} IN IF hits = {} THEN 0 ELSE CHOOSE i \in hits : \A j \in hits : i <= j

\* urlparse(url).netloc: the text between "//" and the next "/", "?" or "#"
Netloc(url) == LET a == Find(url, "//", 1) IN IF a = 0 THEN "" ELSE LET b == a + 2 ends == {i \in b..Len(url) : SubSeq(url, i, i) \in {"/", "?", "#"}} e == IF ends = {} THEN Len(url) + 1 ELSE CHOOSE i \in ends : \A j \in ends : i <= j IN SubSeq(url, b, e - 1)

\* Python d[k] = v on a dict
DictSet(d, k, v) == [x \in (DOMAIN d) \cup {k} |-> IF x = k THEN v ELSE d[x]]

\* Python d.get(k), with None for a missing key
DictGet(d, k) == IF k \in DOMAIN d THEN d[k] ELSE None

\* Python seq[:n] for any integer n (a negative n counts from the end)
SliceTo(seq, n) == IF n >= 0 THEN SubSeq(seq, 1, IF n < Len(seq) THEN n ELSE Len(seq)) ELSE SubSeq(seq, 1, IF Len(seq) + n > 0 THEN Len(seq) + n ELSE 0)

\* Python s.strip(): leading and trailing whitespace removed
Whitespace == {" ", "\t", "\n"}
RECURSIVE lstrip(_)
lstrip(s) == IF Len(s) > 0 /\ SubSeq(s, 1, 1) \in Whitespace THEN lstrip(SubSeq(s, 2, Len(s))) ELSE s
RECURSIVE rstrip(_)
rstrip(s) == IF Len(s) > 0 /\ SubSeq(s, Len(s), Len(s)) \in Whitespace THEN rstrip(SubSeq(s, 1, Len(s) - 1)) ELSE s
strip(s) == rstrip(lstrip(s))

\* Python s.split(sep) for a one-character sep, as a sequence of strings
RECURSIVE split(_, _)
split(s, sep) == LET i == Find(s, sep, 1) IN IF i = 0 THEN <<s>> ELSE <<SubSeq(s, 1, i - 1)>> \o split(SubSeq(s, i + 1, Len(s)), sep)

\* urllib.parse.unquote after replace('+', ' '), for the escapes below
Escapes == [e \in {"%3A", "%2F", "%3F", "%3D", "%26", "%20"} |-> CASE e = "%3A" -> ":" [] e = "%2F" -> "/" [] e = "%3F" -> "?" [] e = "%3D" -> "=" [] e = "%26" -> "&" [] e = "%20" -> " "]
RECURSIVE unquote_plus(_)
unquote_plus(s) == IF s = "" THEN "" ELSE IF Len(s) >= 3 /\ SubSeq(s, 1, 3) \in DOMAIN Escapes THEN Escapes[SubSeq(s, 1, 3)] \o unquote_plus(SubSeq(s, 4, Len(s))) ELSE (IF SubSeq(s, 1, 1) = "+" THEN " " ELSE SubSeq(s, 1, 1)) \o unquote_plus(SubSeq(s, 2, Len(s)))

\* urlparse(url).query: the text after the first "?" of the URL without its
\* "#fragment"
url_query(url) == LET h == Find(url, "#", 1) u == IF h = 0 THEN url ELSE SubSeq(url, 1, h - 1) q == Find(u, "?", 1) IN IF q = 0 THEN "" ELSE SubSeq(u, q + 1, Len(u))

\* parse_qs(query) as the sequence of <<name, value>> pairs in query order:
\* fields without "=" and fields with an empty value are dropped, names and
\* values are unquoted
RECURSIVE qs_pairs(_)
qs_pairs(fields) == IF fields = << >> THEN << >> ELSE LET f == Head(fields) e == Find(f, "=", 1) rest == qs_pairs(Tail(fields)) IN IF e = 0 \/ e = Len(f) THEN rest ELSE << <<unquote_plus(SubSeq(f, 1, e - 1)), unquote_plus(SubSeq(f, e + 1, Len(f)))>> >> \o rest
parse_qs(query) == qs_pairs(split(query, "&"))

\* a lookup that takes the first field of the query, in query order, whose
\* name is one of the list
first_in_query(params, names) == LET hits == {i \in DOMAIN params : \E n \in DOMAIN names : params[i][1] = names[n]} IN IF hits = {} THEN None ELSE params[CHOOSE i \in hits : \A j \in hits : i <= j][2]

\* "for param in names: if param in params: return params[param][0]"; None
\* when no name of the list is a key
RECURSIVE first_param(_, _)
first_param(params, names) == IF names = << >> THEN None ELSE LET hits == {i \in DOMAIN params : params[i][1] = Head(names)} IN IF hits # {} THEN params[CHOOSE i \in hits : \A j \in hits : i <= j][2] ELSE first_param(params, Tail(names))

\* extract_real_url
extract_real_url(google_url) == IF google_url = "" THEN "" ELSE LET params == parse_qs(url_query(google_url)) a == IF Contains(google_url, "google.com/aclk") THEN first_param(params, <<"adurl", "dest", "url">>) ELSE None b == IF Contains(google_url, "google.com/url") THEN first_param(params, <<"url", "q">>) ELSE None IN IF a # None THEN a ELSE IF b # None THEN b ELSE google_url

-----------------------------------------------------------------------------
(* adspy: configuration *)

ADSPY_API_KEY == "adspy-dev-key"

\* search_ads passes max_pages=3
MaxPages == 3

\* "if len(all_ads) >= 10: break"
AdCeiling == 10

location_map == [us |-> [domain |-> "google.com", gl |-> "us", hl |-> "en"], uk |-> [domain |-> "google.co.uk", gl |-> "uk", hl |-> "en"], ca |-> [domain |-> "google.ca", gl |-> "ca", hl |-> "en"], au |-> [domain |-> "google.com.au", gl |-> "au", hl |-> "en"], de |-> [domain |-> "google.de", gl |-> "de", hl |-> "de"], fr |-> [domain |-> "google.fr", gl |-> "fr", hl |-> "fr"], es |-> [domain |-> "google.es", gl |-> "es", hl |-> "es"], it |-> [domain |-> "google.it", gl |-> "it", hl |-> "it"], br |-> [domain |-> "google.com.br", gl |-> "br", hl |-> "pt"], mx |-> [domain |-> "google.com.mx", gl |-> "mx", hl |-> "es"], in |-> [domain |-> "google.co.in", gl |-> "in", hl |-> "en"], jp |-> [domain |-> "google.co.jp", gl |-> "jp", hl |-> "ja"]]

\* location_map.get(location, location_map["us"])
loc_settings(location) == IF location \in DOMAIN location_map THEN location_map[location] ELSE location_map["us"]

\* google_home = f"https://www.{loc_settings['domain']}"
google_home(location) == "https://www." \o loc_settings(location).domain

\* the results URL of one page; the keyword is the fixed text "kw"
search_url(location, start) == google_home(location) \o "/search?q=kw&gl=" \o loc_settings(location).gl \o "&hl=" \o loc_settings(location).hl \o "&start=" \o ToString(start)

-----------------------------------------------------------------------------
(* adspy: what a results page can hold *)

Link(host, n) == "https://" \o host \o "/" \o ToString(n)

\* One candidate element as extract_modern_ad_data sees it: the headline link
\* and the stripped headline text it finds (either may be empty).
Cand(link, title) == [link |-> link, title |-> title]

\* The candidate lists one strategy can meet on one page: nothing; two ads;
\* a mix of an ad that shares its link with one and its title with the other
\* of those two, links into three Google hosts, a headline without text and
\* an element without link; nine further ads.
Batches == {
    << >>,
    << Cand(Link("a.example", 1), "Boots"), Cand(Link("b.example", 2), "Shoes") >>,
    << Cand(Link("a.example", 1), "Shoes"), Cand(Link("www.google.com", 3), "Maps"), Cand(Link("www.google.co.uk", 4), "Maps UK"), Cand(Link("www.google.com.au", 5), "Maps AU"), Cand(Link("c.example", 6), ""), Cand("", "Nothing") >>,
    << Cand(Link("d.example", 11), "D1"), Cand(Link("d.example", 12), "D2"), Cand(Link("d.example", 13), "D3"), Cand(Link("d.example", 14), "D4"), Cand(Link("d.example", 15), "D5"), Cand(Link("d.example", 16), "D6"), Cand(Link("d.example", 17), "D7"), Cand(Link("d.example", 18), "D8"), Cand(Link("d.example", 19), "D9") >> }

\* outcomes of page.goto: it returns, or raises a timeout / rate-limit / other error
NavOutcomes == {"ok", "Timeout 30000ms exceeded", "net::ERR_TOO_MANY_REQUESTS", "Target closed"}

-----------------------------------------------------------------------------
(* adspy: extraction and merge, as scan_google_for_sponsored_ads runs them *)

\* "top" if page_num == 0 else f"page_{page_num + 1}"
block_position(pn) == IF pn = 0 THEN "top" ELSE "page_" \o ToString(pn + 1)

\* the None that extract_modern_ad_data returns for an element without a link
NoAd == [none |-> TRUE]

\* the part of extract_modern_ad_data the scan depends on: None without a
\* link, else a record with position 0, the block label, the link and title
ad_data_of(c, pn) == IF c.link = "" THEN NoAd ELSE [position |-> 0, block_position |-> block_position(pn), source |-> "playwright", link |-> c.link, title |-> c.title]

\* "if ad_data and ad_data.get('link') and ad_data.get('title')" and
\* "if 'google.com' not in ad_data.get('link', '')"
keeps(ad) == ad # NoAd /\ ad.link # "" /\ ad.title # "" /\ ~Contains(ad.link, "google.com")

\* the ads list a find_* strategy returns for the candidates it meets
RECURSIVE strategy_ads(_, _)
strategy_ads(cands, pn) == IF cands = << >> THEN << >> ELSE LET ad == ad_data_of(Head(cands), pn) rest == strategy_ads(Tail(cands), pn) IN IF keeps(ad) THEN <<ad>> \o rest ELSE rest

\* a test that takes every candidate as new
is_new_always(all, ad) == TRUE

\* "if not any(a.get('link') == ad.get('link') for a in all_ads)"
is_new(all, ad) == ~\E i \in DOMAIN all : all[i].link = ad.link

\* a merge that puts what a strategy found before the ads merged so far
merge_newest_first(all, found) == found \o all

\* the merge loop: "for ad in found: if not any(...): all_ads.append(ad)"
RECURSIVE merge(_, _)
merge(all, found) == IF found = << >> THEN all ELSE merge(IF is_new(all, Head(found)) THEN Append(all, Head(found)) ELSE all, Tail(found))

\* a scan that numbers the ads by their enumerate index alone
assign_positions_from_zero(all) == [k \in DOMAIN all |-> [all[k] EXCEPT !.position = k - 1]]

\* "for i, ad in enumerate(all_ads): ad['position'] = i + 1"; the k-th ad of
\* the list has the enumerate index i = k - 1
assign_positions(all) == [k \in DOMAIN all |-> [all[k] EXCEPT !.position = (k - 1) + 1]]

-----------------------------------------------------------------------------
(* adspy: extract_modern_ad_data on one element *)

\* what query_selector gives for one headline sub-selector: nothing, or an
\* element with its href attribute ("" when it has none), the text of the h3
\* inside it when there is one, and its own inner text
NoHead == [found |-> FALSE, href |-> "", has_h3 |-> FALSE, h3 |-> "", text |-> ""]
HeadEl(href, has_h3, h3, text) == [found |-> TRUE, href |-> href, has_h3 |-> has_h3, h3 |-> h3, text |-> text]

\* one "a" element of query_selector_all("a"): its href and its inner text
Anchor(href, text) == [href |-> href, text |-> text]

\* no element
NoElement == [heads |-> << >>, anchors |-> << >>]

\* "if len(sl_text) > 50: continue"
SitelinkTextMax == 50

\* "if len(unique_sitelinks) >= 6: break"
SitelinkCap == 6

\* the loop over link_selectors from selector i on, with the link and title
\* left by the selectors before it; the result is <<link, title>>
RECURSIVE headline(_, _, _, _)
headline(heads, i, link, title) ==
    IF i > Len(heads) THEN <<link, title>>
    ELSE IF ~heads[i].found THEN headline(heads, i + 1, link, title)
    ELSE LET href == heads[i].href
             link2 == IF href # "" /\ Contains(href, "google.com/aclk") THEN extract_real_url(href) ELSE IF href # "" /\ StartsWith(href, "http") THEN href ELSE link
             title2 == IF heads[i].has_h3 THEN heads[i].h3 ELSE heads[i].text
         IN  IF link2 # "" /\ title2 # "" THEN <<link2, title2>> ELSE headline(heads, i + 1, link2, title2)

\* the four "continue" tests of the sitelink loop and the test before the
\* append; title is the headline text as the headline loop left it
is_sitelink(a, title) ==
    /\ a.href # "" /\ a.text # ""
    /\ a.text # title
    /\ ~(Len(a.text) > SitelinkTextMax)
    /\ ~(Contains(a.href, "google.com") /\ ~Contains(a.href, "aclk"))
    /\ extract_real_url(a.href) # "" /\ strip(a.text) # ""

\* the sitelinks list before the removal of duplicates
RECURSIVE collect_sitelinks(_, _)
collect_sitelinks(anchors, title) == IF anchors = << >> THEN << >> ELSE LET a == Head(anchors) rest == collect_sitelinks(Tail(anchors), title) IN IF is_sitelink(a, title) THEN <<[title |-> strip(a.text), link |-> extract_real_url(a.href)]>> \o rest ELSE rest

\* "for sl in sitelinks: if sl['title'] not in seen_titles: ... append ...
\* if len(unique_sitelinks) >= 6: break", from the list `unique` built so far
RECURSIVE unique_sitelinks(_, _)
unique_sitelinks(sitelinks, unique) == IF sitelinks = << >> THEN unique ELSE IF \E i \in DOMAIN unique : unique[i].title = Head(sitelinks).title THEN unique_sitelinks(Tail(sitelinks), unique) ELSE IF Len(unique) + 1 >= SitelinkCap THEN Append(unique, Head(sitelinks)) ELSE unique_sitelinks(Tail(sitelinks), Append(unique, Head(sitelinks)))

\* extract_modern_ad_data: None without a link; else position, block label,
\* source, link, the stripped title and, when there are any, the sitelinks
\* (the displayed link, site name and description are not modelled)
extract_modern_ad_data(el, pn) ==
    LET found == headline(el.heads, 1, "", "")
        link == found[1]
        title == found[2]
    IN  IF link = "" THEN NoAd
        ELSE LET ad == [position |-> 0, block_position |-> block_position(pn), source |-> "playwright", link |-> link, title |-> IF title # "" THEN strip(title) ELSE ""]
                 sl == unique_sitelinks(collect_sitelinks(el.anchors, title), << >>)
             IN  IF sl # << >> THEN DictSet(ad, "sitelinks", sl) ELSE ad

\* the sub-elements a headline sub-selector can find
HeadPool == {
    NoHead,
    HeadEl("https://a.example/1", TRUE, "Shoes", "Shoes a.example"),
    HeadEl("", FALSE, "", " Boots "),
    HeadEl("https://www.google.com/aclk?sa=l&adurl=https%3A%2F%2Fb.example%2F2", FALSE, "", "") }

\* the anchors an element can hold, in any order, up to MaxAnchors of them
AnchorPool == {
    Anchor("https://a.example/1", "Shoes"),
    Anchor("https://a.example/s", "Shoes "),
    Anchor("https://a.example/boots", "Boots"),
    Anchor("https://www.google.com/aclk?adurl=https://a.example/sale&x=1", "Sale"),
    Anchor("https://www.google.com/maps", "Maps"),
    Anchor("https://a.example/long", "012345678901234567890123456789012345678901234567890"),
    Anchor("", " ") }

\* a row of seven valid sitelinks
SitelinkRow == [i \in 1..7 |-> Anchor(Link("a.example/row", i), "Row " \o ToString(i))]

RECURSIVE SeqsUpTo(_, _)
SeqsUpTo(S, n) == IF n = 0 THEN {<< >>} ELSE LET shorter == SeqsUpTo(S, n - 1) IN shorter \cup {Append(q, x) : q \in shorter, x \in S}

\* the anchor lists: up to MaxAnchors anchors of the pool, or at most one of
\* them followed by the row
AnchorLists == SeqsUpTo(AnchorPool, MaxAnchors) \cup {a \o SitelinkRow : a \in SeqsUpTo(AnchorPool, 1)}

\* what each of the four link_selectors can find: "a[data-rw]" any anchor,
\* "a h3" an h3 (no href, no h3 inside it), "a[href^='http']:has(h3)" an
\* anchor with an http href and an h3, "a[href^='http']" an anchor with an
\* http href
HeadsFor(i) == CASE i = 1 -> HeadPool
                 [] i = 2 -> {h \in HeadPool : ~h.found \/ (h.href = "" /\ ~h.has_h3)}
                 [] i = 3 -> {h \in HeadPool : ~h.found \/ (StartsWith(h.href, "http") /\ h.has_h3)}
                 [] i = 4 -> {h \in HeadPool : ~h.found \/ StartsWith(h.href, "http")}

\* the four finds are made in one element: an anchor one selector found is
\* there for the selectors that match it too
same_element(hs) ==
    /\ (hs[1].found /\ StartsWith(hs[1].href, "http")) => hs[4].found
    /\ (hs[1].found /\ StartsWith(hs[1].href, "http") /\ hs[1].has_h3) => hs[3].found
    /\ hs[3].found => hs[4].found
    /\ ~hs[3].found => ~hs[4].has_h3
    /\ ~hs[2].found => \A i \in 1..4 : ~hs[i].has_h3

Elements == [heads : {hs \in [1..4 -> HeadPool] : same_element(hs) /\ \A i \in 1..4 : hs[i] \in HeadsFor(i)}, anchors : AnchorLists]

-----------------------------------------------------------------------------
(* adspy: the URLs extract_real_url can be handed *)

\* one query field as it is written in a URL: its name, its text after "="
\* and the value that text encodes
Field(name, raw, value) == [name |-> name, raw |-> raw, value |-> value]

\* the address before the "?": Google's ad-click redirect, Google's generic
\* redirect, an ad-click address of another host, a landing page
UrlBases == {"https://www.google.com/aclk", "https://www.google.com/url", "https://www.googleadservices.com/pagead/aclk", "https://a.example/landing"}

FieldPool == {
    Field("adurl", "https://a.example/x", "https://a.example/x"),
    Field("dest", "https://b.example/y", "https://b.example/y"),
    Field("url", "https://c.example/z", "https://c.example/z"),
    Field("q", "https://d.example/w", "https://d.example/w"),
    Field("sa", "l", "l"),
    Field("adurl", "", ""),
    Field("adurl", "https%3A%2F%2Fe.example%2Fv%3Fk%3D1%26j%3D2", "https://e.example/v?k=1&j=2") }

\* no URL
NoParts == [base |-> "", fields |-> << >>]

UrlParts == [base : UrlBases, fields : SeqsUpTo(FieldPool, MaxFields)] \cup {NoParts}

\* the text of a URL: base, "?", and the fields as name=raw joined by "&"
RECURSIVE join_fields(_)
join_fields(fields) == IF fields = << >> THEN "" ELSE Head(fields).name \o "=" \o Head(fields).raw \o (IF Tail(fields) = << >> THEN "" ELSE "&" \o join_fields(Tail(fields)))
url_text(parts) == IF parts.fields = << >> THEN parts.base ELSE parts.base \o "?" \o join_fields(parts.fields)

-----------------------------------------------------------------------------
(* Initial state: one server process, one request about to be handled *)

Services == {"adspy", "ytdl"}
ApiKeys == {ADSPY_API_KEY, "wrong-key"}
Locations == {"us", "uk", "xx"}
NumResults == {-1, 0, 2, 10}

\* no response has been produced yet
NoResponse == [status |-> 0]

\* youtube-downloader: the configured key and the requests it can receive
API_KEY == "dev-key-change-me"
DlEndpoints == {"/info", "/download", "/download-url"}
DlRequests == [endpoint : DlEndpoints, api_key : {API_KEY, "wrong-key"}, url : {"https://youtu.be/v1"}, format : {"mp4"}]

Init ==
    /\ service \in Services
    /\ request \in IF service = "adspy" THEN [api_key : ApiKeys, location : Locations, num_results : NumResults] ELSE {None}
    /\ pc = "start"
    /\ all_ads = << >>
    /\ page_num = 0
    /\ navLog = << >>
    /\ stratLog = << >>
    /\ found_ads = << >>
    /\ debug_info = << >>
    /\ scanBrowser = "none"
    /\ ads = << >>
    /\ capIdx = 0
    /\ capBrowser = "none"
    /\ capLog = << >>
    /\ openPages = 0
    /\ capFaults = 0
    /\ response = NoResponse
    /\ dlReq \in IF service = "ytdl" THEN [1..MaxDlRequests -> DlRequests] ELSE {<< >>}
    /\ dlPc = [r \in DOMAIN dlReq |-> "start"]
    /\ dlInfo = [r \in DOMAIN dlReq |-> None]
    /\ dlFile = [r \in DOMAIN dlReq |-> None]
    /\ dlResp = [r \in DOMAIN dlReq |-> 0]
    /\ files = {}
    /\ dlLog = << >>
    /\ dlRunning = 0
    /\ element = NoElement
    /\ ad_out = NoAd
    /\ url_parts = NoParts
    /\ given_url = ""
    /\ real_url = ""

-----------------------------------------------------------------------------
(* adspy: POST /search *)

SearchResponse(success, adlist, error, dbg) == [status |-> 200, success |-> success, ads |-> adlist, error |-> error, debug_info |-> dbg]

\* an except branch that answers with a fresh trace holding the traceback alone
error_trace_fresh(dbg, msg) == [error_traceback |-> msg]

\* "debug_info['error_traceback'] = traceback.format_exc()" on the dict the
\* stages wrote to
error_trace(dbg, msg) == DictSet(dbg, "error_traceback", msg)

\* the "except Exception as e" of search_ads
search_failed(msg) ==
    /\ response' = SearchResponse(FALSE, << >>, msg, error_trace(debug_info, msg))
    /\ debug_info' = error_trace(debug_info, msg)
    /\ pc' = "done"

\* a key check that lets every key through
key_accepted_any(key) == TRUE

\* "if request.api_key != ADSPY_API_KEY: raise HTTPException(401)"
key_accepted(key) == key = ADSPY_API_KEY

\* search_ads: the API-key check and the creation of debug_info
SearchAuth ==
    /\ service = "adspy" /\ pc = "start"
    /\ IF ~key_accepted(request.api_key)
       THEN /\ response' = [status |-> 401, detail |-> "Invalid API key"]
            /\ pc' = "done"
            /\ UNCHANGED debug_info
       ELSE /\ debug_info' = [method |-> "playwright", pages_scanned |-> 0, raw_ads_found |-> 0]
            /\ pc' = "launch"
            /\ UNCHANGED response
    /\ UNCHANGED <<extractVars, ytdlVars, service, request, all_ads, page_num, navLog, stratLog, found_ads, scanBrowser, ads, capIdx, capBrowser, capLog, openPages, capFaults>>

\* scan_google_for_sponsored_ads: p.chromium.launch, new_context, new_page
ScanLaunch ==
    /\ service = "adspy" /\ pc = "launch"
    /\ \E ok \in BOOLEAN :
        IF ok
        THEN /\ scanBrowser' = "open"
             /\ pc' = "home"
             /\ UNCHANGED <<response, debug_info>>
        ELSE /\ search_failed("BrowserType.launch: failed")
             /\ UNCHANGED scanBrowser
    /\ UNCHANGED <<extractVars, ytdlVars, service, request, all_ads, page_num, navLog, stratLog, found_ads, ads, capIdx, capBrowser, capLog, openPages, capFaults>>

\* an except branch that drops what was merged
after_scan_error_drops(all) == << >>

\* all_ads after "except Exception as e": the handler only prints and traces,
\* the ads merged so far stay
after_scan_error(all) == all

\* the page.goto calls of the scan, in order: the page index (-1 for the home
\* page), the offset, the URL, how the call ended, and all_ads at the call
\* (navLog records them; stratLog records the strategy runs as <<page, method>>)

\* the visit of the home page, the consent handling and the mouse move
HomeNavigate ==
    /\ service = "adspy" /\ pc = "home"
    /\ \E out \in NavOutcomes :
        /\ navLog' = Append(navLog, [page |-> -1, start |-> 0, url |-> google_home(request.location), outcome |-> out, merged |-> all_ads])
        /\ IF out = "ok"
           THEN /\ debug_info' = DictSet(debug_info, "visiting_homepage", google_home(request.location))
                /\ pc' = IF 0 < MaxPages THEN "navigate" ELSE "finally"
           ELSE /\ debug_info' = DictSet(DictSet(debug_info, "visiting_homepage", google_home(request.location)), "scan_error", out)
                /\ pc' = "finally"
    /\ page_num' = 0
    /\ all_ads' = IF navLog'[Len(navLog')].outcome = "ok" THEN all_ads ELSE after_scan_error(all_ads)
    /\ UNCHANGED <<extractVars, ytdlVars, service, request, stratLog, found_ads, scanBrowser, ads, capIdx, capBrowser, capLog, openPages, capFaults, response>>

\* one turn of "for page_num in range(max_pages)" up to the settle delays:
\* the URL is built and traced, page.goto runs, and either the page counts as
\* scanned or the exception lands in "except Exception" (scan_error)
NavigateResults ==
    /\ service = "adspy" /\ pc = "navigate"
    /\ page_num < MaxPages
    /\ \E out \in NavOutcomes :
        LET start == page_num * 10
            url == search_url(request.location, start)
            traced == DictSet(DictSet(debug_info, "url_page_" \o ToString(page_num), url), "user_agent", "Mozilla/5.0")
        IN  /\ navLog' = Append(navLog, [page |-> page_num, start |-> start, url |-> url, outcome |-> out, merged |-> all_ads])
            /\ IF out = "ok"
               THEN /\ debug_info' = LET scanned == DictSet(traced, "pages_scanned", page_num + 1) IN IF page_num = 0 THEN DictSet(scanned, "serp_screenshot_base64", "jpeg") ELSE scanned
                    /\ pc' = "method1"
               ELSE /\ debug_info' = DictSet(traced, "scan_error", out)
                    /\ pc' = "finally"
    /\ all_ads' = IF navLog'[Len(navLog')].outcome = "ok" THEN all_ads ELSE after_scan_error(all_ads)
    /\ UNCHANGED <<extractVars, ytdlVars, service, request, page_num, stratLog, found_ads, scanBrowser, ads, capIdx, capBrowser, capLog, openPages, capFaults, response>>

\* Method 1: find_sponsored_section_ads and its merge loop
Method1 ==
    /\ service = "adspy" /\ pc = "method1"
    /\ \E found \in Batches :
        /\ found_ads' = strategy_ads(found, page_num)
        /\ all_ads' = merge(all_ads, found_ads')
        /\ stratLog' = Append(stratLog, <<page_num, 1>>)
    /\ pc' = "method2"
    /\ UNCHANGED <<extractVars, ytdlVars, service, request, page_num, navLog, debug_info, scanBrowser, ads, capIdx, capBrowser, capLog, openPages, capFaults, response>>

\* Method 2: find_ads_by_indicators and its merge loop
Method2 ==
    /\ service = "adspy" /\ pc = "method2"
    /\ \E found \in Batches :
        /\ found_ads' = strategy_ads(found, page_num)
        /\ all_ads' = merge(all_ads, found_ads')
        /\ stratLog' = Append(stratLog, <<page_num, 2>>)
    /\ pc' = "method3"
    /\ UNCHANGED <<extractVars, ytdlVars, service, request, page_num, navLog, debug_info, scanBrowser, ads, capIdx, capBrowser, capLog, openPages, capFaults, response>>

\* a page loop without the ceiling test
loop_continues_no_ceiling(all, pn) == pn + 1 < MaxPages

\* whether the page loop goes on after a page whose merge left `all`
loop_continues(all, pn) == ~(Len(all) >= AdCeiling) /\ pn + 1 < MaxPages

\* Method 3: find_top_ad_block and its merge loop, then raw_ads_found, the
\* "len(all_ads) >= 10: break" test and the step to the next page
Method3 ==
    /\ service = "adspy" /\ pc = "method3"
    /\ \E found \in Batches :
        /\ found_ads' = strategy_ads(found, page_num)
        /\ all_ads' = merge(all_ads, found_ads')
        /\ stratLog' = Append(stratLog, <<page_num, 3>>)
    /\ debug_info' = DictSet(debug_info, "raw_ads_found", Len(all_ads'))
    /\ IF loop_continues(all_ads', page_num)
       THEN /\ page_num' = page_num + 1
            /\ pc' = "navigate"
       ELSE /\ UNCHANGED page_num
            /\ pc' = "finally"
    /\ UNCHANGED <<extractVars, ytdlVars, service, request, navLog, scanBrowser, ads, capIdx, capBrowser, capLog, openPages, capFaults, response>>

\* search_ads "ads = ads[: request.num_results]"
limit_results(found, n) == SliceTo(found, n)

\* (found_ads is the list the last strategy returned: sponsored_ads,
\* indicator_ads or top_ads, locals of the scan that end with it)

\* "finally: await browser.close()", the position loop and the return of the
\* scan; then search_ads up to the call of capture_landing_screenshots:
\* ads_after_processing, the empty-result response, the result limit.
\* capture_landing_screenshots returns an empty list at once.
ScanReturn ==
    /\ service = "adspy" /\ pc = "finally"
    /\ scanBrowser' = "closed"
    /\ found_ads' = << >>
    /\ \E closed \in BOOLEAN :
        IF ~closed
        THEN /\ search_failed("Browser.close: failed")
             /\ UNCHANGED <<all_ads, ads>>
        ELSE LET result == assign_positions(all_ads)
                 dbg == DictSet(debug_info, "ads_after_processing", Len(result))
                 limited == limit_results(result, request.num_results)
             IN  /\ all_ads' = result
                 /\ debug_info' = dbg
                 /\ ads' = limited
                 /\ IF result = << >> \/ limited = << >>
                    THEN /\ response' = SearchResponse(TRUE, << >>, None, dbg)
                         /\ pc' = "done"
                    ELSE /\ UNCHANGED response
                         /\ pc' = "capture_launch"
    /\ UNCHANGED <<extractVars, ytdlVars, service, request, page_num, navLog, stratLog, capIdx, capBrowser, capLog, openPages, capFaults>>

-----------------------------------------------------------------------------
(* adspy: capture_landing_screenshots *)

\* what one landing-page capture can do after its page is open: all of goto,
\* screenshot and close return, or one of them raises
CaptureOutcomes == {"ok", "Page.goto: Timeout 20000ms exceeded", "Page.screenshot: failed", "Page.close: failed"}

\* the landing hosts whose capture may fail; the others always load
FlakyHosts == {"a.example", "b.example", "www.google.co.uk"}

\* what the capture of one landing URL can do
capture_outcomes(url) == IF Netloc(url) \in FlakyHosts THEN CaptureOutcomes ELSE {"ok"}

\* an except branch that records the error and leaves the image field alone
capture_failed_keeps_image(ad, msg) == DictSet(ad, "screenshot_error", msg)

\* the "except Exception as e" of one capture
capture_failed(ad, msg) == DictSet(DictSet(ad, "landing_page_screenshot_base64", None), "screenshot_error", msg)

\* "ad['landing_page_screenshot_base64'] = base64.b64encode(screenshot).decode()"
capture_stored(ad) == DictSet(ad, "landing_page_screenshot_base64", "b64:" \o ad.link)

\* the step to the next ad of "for ad in ads", or to the end of the loop
capture_next(i, n) == IF i + 1 <= n THEN "capture_open" ELSE "capture_finish"

\* async_playwright, chromium.launch and new_context of the capture stage
CaptureLaunch ==
    /\ service = "adspy" /\ pc = "capture_launch"
    /\ \E ok \in BOOLEAN :
        IF ok
        THEN /\ capBrowser' = "open"
             /\ capIdx' = 1
             /\ pc' = capture_next(0, Len(ads))
             /\ UNCHANGED <<response, debug_info>>
        ELSE /\ search_failed("BrowserType.launch: failed")
             /\ UNCHANGED <<capBrowser, capIdx>>
    /\ UNCHANGED <<extractVars, ytdlVars, service, request, all_ads, page_num, navLog, stratLog, found_ads, scanBrowser, ads, capLog, openPages, capFaults>>

\* the head of one loop turn: an ad without a link is skipped, else
\* context.new_page() opens the capture page
CaptureOpen ==
    /\ service = "adspy" /\ pc = "capture_open"
    /\ capIdx <= Len(ads)
    /\ IF DictGet(ads[capIdx], "link") \in {None, ""}
       THEN /\ capIdx' = capIdx + 1
            /\ pc' = capture_next(capIdx, Len(ads))
            /\ UNCHANGED openPages
       ELSE /\ openPages' = openPages + 1
            /\ pc' = "capture_page"
            /\ UNCHANGED capIdx
    /\ UNCHANGED <<extractVars, ytdlVars, service, request, all_ads, page_num, navLog, stratLog, found_ads, debug_info, scanBrowser, ads, capBrowser, capLog, capFaults, response>>

\* the pages left open after a capture with this outcome: page.close() runs
\* only when goto and screenshot returned
pages_after(open, out) == IF out = "ok" THEN open - 1 ELSE open

\* the ad after the try block of one capture: the image is stored once goto
\* and screenshot have returned, and the except branch runs for any raise,
\* that of page.close() included
capture_result(ad, out) == IF out = "ok" THEN capture_stored(ad) ELSE IF out = "Page.close: failed" THEN capture_failed(capture_stored(ad), out) ELSE capture_failed(ad, out)

\* the rest of the loop turn: goto, the settle sleep, screenshot, the store
\* of the image, page.close(); any exception goes to the except branch
CapturePage ==
    /\ service = "adspy" /\ pc = "capture_page"
    /\ \E out \in capture_outcomes(ads[capIdx].link) :
        /\ out # "ok" => capFaults < MaxCaptureFaults
        /\ ads' = [ads EXCEPT ![capIdx] = capture_result(@, out)]
        /\ capLog' = Append(capLog, [idx |-> capIdx, outcome |-> out])
        /\ capFaults' = IF out = "ok" THEN capFaults ELSE capFaults + 1
        /\ openPages' = pages_after(openPages, out)
    /\ capIdx' = capIdx + 1
    /\ pc' = capture_next(capIdx, Len(ads))
    /\ UNCHANGED <<extractVars, ytdlVars, service, request, all_ads, page_num, navLog, stratLog, found_ads, debug_info, scanBrowser, capBrowser, response>>

\* "await browser.close()" and "return ads", then the success response of
\* search_ads
CaptureFinish ==
    /\ service = "adspy" /\ pc = "capture_finish"
    /\ capBrowser' = "closed"
    /\ openPages' = 0
    /\ \E closed \in BOOLEAN :
        IF closed
        THEN /\ response' = SearchResponse(TRUE, ads, None, debug_info)
             /\ pc' = "done"
             /\ UNCHANGED debug_info
        ELSE search_failed("Browser.close: failed")
    /\ UNCHANGED <<extractVars, ytdlVars, service, request, all_ads, page_num, navLog, stratLog, found_ads, scanBrowser, ads, capIdx, capLog, capFaults>>

-----------------------------------------------------------------------------
(* youtube-downloader: /info, /download, /download-url *)

\* what ydl.extract_info can do: return an info dict, return nothing, raise
\* yt_dlp.DownloadError, raise another exception
ExtractOutcomes == {"info", "none", "DownloadError", "error"}

\* the extensions yt-dlp may give the file it writes
WrittenExts == {"mp4", "webm"}

\* the video id yt-dlp reports for a URL: its last path segment
video_id(url) == SubSeq(url, Len(url) - 1, Len(url))

\* TEMP_DIR / f"{video_id}.{possible_ext}"
temp_path(id, ext) == "/tmp/youtube-downloads/" \o id \o "." \o ext

\* "for possible_ext in [ext, 'mp4', 'webm', 'mkv', 'mp3', 'm4a']": the first
\* path that exists, None when there is none
find_downloaded(id, ext, present) == LET order == <<ext, "mp4", "webm", "mkv", "mp3", "m4a">> hits == {i \in DOMAIN order : temp_path(id, order[i]) \in present} IN IF hits = {} THEN None ELSE temp_path(id, order[CHOOSE i \in hits : \A j \in hits : i <= j])

\* verify_api_key: 401 for a key that is not API_KEY
verify_api_key(key) == IF key # API_KEY THEN 401 ELSE 200

\* the status a handler's try block ends with when it raises HTTPException(code)
\* inside the try: HTTPException is an Exception, so "except Exception" takes
\* it and raises HTTPException(500)
raised_in_try(code) == 500

\* The handlers are coroutines of one event loop and call yt-dlp without
\* awaiting: from its first statement to its return a handler runs alone
\* (dlRunning is the request whose handler holds the loop, 0 for none). The
\* response is sent by the loop afterwards; cleanup is a plain function, which
\* the framework runs on a worker thread after the response.

\* the head of every handler: verify_api_key(request.api_key)
DlVerify(r) ==
    /\ service = "ytdl" /\ dlPc[r] = "start" /\ dlRunning = 0
    /\ IF verify_api_key(dlReq[r].api_key) = 401
       THEN /\ dlResp' = [dlResp EXCEPT ![r] = 401]
            /\ dlPc' = [dlPc EXCEPT ![r] = "done"]
            /\ UNCHANGED dlRunning
       ELSE /\ dlPc' = [dlPc EXCEPT ![r] = "extract"]
            /\ dlRunning' = r
            /\ UNCHANGED dlResp
    /\ UNCHANGED <<extractVars, adspyVars, service, dlReq, dlInfo, dlFile, files, dlLog>>

\* "with yt_dlp.YoutubeDL(opts) as ydl: info = ydl.extract_info(...)" and the
\* handler's reaction to its result; /download writes the file
DlExtract(r) ==
    /\ service = "ytdl" /\ dlPc[r] = "extract" /\ dlRunning = r
    /\ dlLog' = Append(dlLog, [req |-> r, event |-> "extract_info"])
    /\ \E out \in ExtractOutcomes, wext \in WrittenExts, has_url \in BOOLEAN :
        /\ (dlReq[r].endpoint # "/download" \/ out # "info") => wext = "mp4"
        /\ (dlReq[r].endpoint # "/download-url" \/ out # "info") => has_url
        /\ dlInfo' = [dlInfo EXCEPT ![r] = out]
        /\ files' = IF dlReq[r].endpoint = "/download" /\ out = "info" THEN files \cup {temp_path(video_id(dlReq[r].url), wext)} ELSE files
        /\ CASE out = "DownloadError" -> dlResp' = [dlResp EXCEPT ![r] = 400] /\ dlPc' = [dlPc EXCEPT ![r] = "done"]
             [] out = "error" -> dlResp' = [dlResp EXCEPT ![r] = 500] /\ dlPc' = [dlPc EXCEPT ![r] = "done"]
             [] out = "none" -> dlResp' = [dlResp EXCEPT ![r] = raised_in_try(404)] /\ dlPc' = [dlPc EXCEPT ![r] = "done"]
             [] out = "info" /\ dlReq[r].endpoint = "/info" -> dlResp' = [dlResp EXCEPT ![r] = 200] /\ dlPc' = [dlPc EXCEPT ![r] = "done"]
             [] out = "info" /\ dlReq[r].endpoint = "/download-url" -> dlResp' = [dlResp EXCEPT ![r] = IF has_url THEN 200 ELSE raised_in_try(404)] /\ dlPc' = [dlPc EXCEPT ![r] = "done"]
             [] out = "info" /\ dlReq[r].endpoint = "/download" -> dlResp' = dlResp /\ dlPc' = [dlPc EXCEPT ![r] = "locate"]
        /\ dlRunning' = IF dlPc'[r] = "done" THEN 0 ELSE r
    /\ UNCHANGED <<extractVars, adspyVars, service, dlReq, dlFile>>

\* /download: the search for the downloaded file, the 500 when none exists,
\* the scheduling of cleanup and the return of the FileResponse
DlLocate(r) ==
    /\ service = "ytdl" /\ dlPc[r] = "locate" /\ dlRunning = r
    /\ dlRunning' = 0
    /\ LET found == find_downloaded(video_id(dlReq[r].url), dlReq[r].format, files)
       IN  IF found = None
           THEN /\ dlResp' = [dlResp EXCEPT ![r] = raised_in_try(500)]
                /\ dlPc' = [dlPc EXCEPT ![r] = "done"]
                /\ UNCHANGED dlFile
           ELSE /\ dlFile' = [dlFile EXCEPT ![r] = found]
                /\ dlPc' = [dlPc EXCEPT ![r] = "sending"]
                /\ UNCHANGED dlResp
    /\ UNCHANGED <<extractVars, adspyVars, service, dlReq, dlInfo, files, dlLog>>

\* the FileResponse is sent: the file is read from its path at this point
DlSend(r) ==
    /\ service = "ytdl" /\ dlPc[r] = "sending" /\ dlRunning = 0
    /\ dlResp' = [dlResp EXCEPT ![r] = IF dlFile[r] \in files THEN 200 ELSE 500]
    /\ dlLog' = Append(dlLog, [req |-> r, event |-> IF dlFile[r] \in files THEN "sent" ELSE "missing"])
    /\ dlPc' = [dlPc EXCEPT ![r] = "cleanup"]
    /\ UNCHANGED <<extractVars, adspyVars, service, dlReq, dlInfo, dlFile, files, dlRunning>>

\* the background task: "if downloaded_file.exists(): downloaded_file.unlink()"
DlCleanup(r) ==
    /\ service = "ytdl" /\ dlPc[r] = "cleanup"
    /\ files' = files \ {dlFile[r]}
    /\ dlPc' = [dlPc EXCEPT ![r] = "done"]
    /\ UNCHANGED <<extractVars, adspyVars, service, dlReq, dlInfo, dlFile, dlResp, dlLog, dlRunning>>

YtdlNext == (\E r \in DOMAIN dlReq : DlVerify(r)) \/ (\E r \in DOMAIN dlReq : DlExtract(r)) \/ (\E r \in DOMAIN dlReq : DlLocate(r)) \/ (\E r \in DOMAIN dlReq : DlSend(r)) \/ (\E r \in DOMAIN dlReq : DlCleanup(r))

AdspyNext == SearchAuth \/ ScanLaunch \/ HomeNavigate \/ NavigateResults \/ Method1 \/ Method2 \/ Method3 \/ ScanReturn \/ CaptureLaunch \/ CaptureOpen \/ CapturePage \/ CaptureFinish

Next == AdspyNext \/ YtdlNext

Spec == Init /\ [][Next]_vars

-----------------------------------------------------------------------------
(* extract_modern_ad_data alone, on every element of Elements *)

InitExtract ==
    /\ service = "adspy"
    /\ request = [api_key |-> ADSPY_API_KEY, location |-> "us", num_results |-> 10]
    /\ pc = "extract"
    /\ all_ads = << >> /\ page_num = 0 /\ navLog = << >> /\ stratLog = << >> /\ found_ads = << >>
    /\ debug_info = << >> /\ scanBrowser = "none" /\ ads = << >> /\ capIdx = 0
    /\ capBrowser = "none" /\ capLog = << >> /\ openPages = 0 /\ capFaults = 0
    /\ response = NoResponse
    /\ dlReq = << >> /\ dlPc = << >> /\ dlInfo = << >> /\ dlFile = << >> /\ dlResp = << >>
    /\ files = {} /\ dlLog = << >> /\ dlRunning = 0
    /\ element \in Elements
    /\ ad_out = NoAd
    /\ url_parts = NoParts /\ given_url = "" /\ real_url = ""

\* one call of extract_modern_ad_data(element, page_num)
ExtractAd ==
    /\ pc = "extract"
    /\ ad_out' = extract_modern_ad_data(element, page_num)
    /\ pc' = "extracted"
    /\ UNCHANGED <<service, request, all_ads, page_num, navLog, stratLog, found_ads, debug_info, scanBrowser, ads, capIdx, capBrowser, capLog, openPages, capFaults, response, ytdlVars, element, url_parts, given_url, real_url>>

NextExtract == ExtractAd

SpecExtract == InitExtract /\ [][NextExtract]_vars

-----------------------------------------------------------------------------
(* extract_real_url alone, on the text of every URL of UrlParts *)

InitResolve ==
    /\ service = "adspy"
    /\ request = [api_key |-> ADSPY_API_KEY, location |-> "us", num_results |-> 10]
    /\ pc = "resolve"
    /\ all_ads = << >> /\ page_num = 0 /\ navLog = << >> /\ stratLog = << >> /\ found_ads = << >>
    /\ debug_info = << >> /\ scanBrowser = "none" /\ ads = << >> /\ capIdx = 0
    /\ capBrowser = "none" /\ capLog = << >> /\ openPages = 0 /\ capFaults = 0
    /\ response = NoResponse
    /\ dlReq = << >> /\ dlPc = << >> /\ dlInfo = << >> /\ dlFile = << >> /\ dlResp = << >>
    /\ files = {} /\ dlLog = << >> /\ dlRunning = 0
    /\ element = NoElement /\ ad_out = NoAd
    /\ url_parts \in UrlParts
    /\ given_url = url_text(url_parts)
    /\ real_url = ""

\* one call of extract_real_url(given_url)
ResolveUrl ==
    /\ pc = "resolve"
    /\ real_url' = extract_real_url(given_url)
    /\ pc' = "resolved"
    /\ UNCHANGED <<service, request, all_ads, page_num, navLog, stratLog, found_ads, debug_info, scanBrowser, ads, capIdx, capBrowser, capLog, openPages, capFaults, response, ytdlVars, element, ad_out, url_parts, given_url>>

NextResolve == ResolveUrl

SpecResolve == InitResolve /\ [][NextResolve]_vars

-----------------------------------------------------------------------------
(* Properties of the ad scan and of /search *)

\* scan_google_for_sponsored_ads has returned to search_ads (which then
\* writes ads_after_processing); all_ads is the list it returned
ScanReturned == service = "adspy" /\ "ads_after_processing" \in DOMAIN debug_info

\* the page loop is over: by exhaustion, by the ceiling or by an exception
LoopLeft == service = "adspy" /\ pc \in {"finally", "capture_launch", "capture_open", "capture_page", "capture_finish", "done"}

\* the result-page navigations of the scan, in order (the home page left out)
RECURSIVE result_navs(_)
result_navs(log) == IF log = << >> THEN << >> ELSE IF Head(log).page >= 0 THEN <<Head(log)>> \o result_navs(Tail(log)) ELSE result_navs(Tail(log))

\* the number of ads of `all` that were first added on result page pn
added_on_page(all, pn) == Cardinality({i \in DOMAIN all : all[i].block_position = block_position(pn)})

\* a page.goto of the scan has raised
NavFailed == service = "adspy" /\ navLog # << >> /\ navLog[Len(navLog)].outcome # "ok"

\* an ad without the fields the capture stage adds
scan_fields(ad) == [k \in (DOMAIN ad) \ {"landing_page_screenshot_base64", "screenshot_error"} |-> ad[k]]

\* C1: Dedup closure. In the list scan_google_for_sponsored_ads returns, no
\* two ads share a link and no two ads share a title.
C1_DedupClosure == ScanReturned => \A i, j \in DOMAIN all_ads : i # j => (all_ads[i].link # all_ads[j].link /\ all_ads[i].title # all_ads[j].title)

\* C2: Termination on exhaustion. A result page is never navigated when the
\* two result pages before it each added no ad to the running set.
C2_StopsAfterTwoEmptyPages == service = "adspy" => \A k \in DOMAIN navLog : navLog[k].page >= 2 => ~(added_on_page(navLog[k].merged, navLog[k].page - 1) = 0 /\ added_on_page(navLog[k].merged, navLog[k].page - 2) = 0)

\* C3: Position assignment. On every return of the scan the k returned ads
\* carry the positions 1..k in list order, and the ads of a /search response,
\* cut to num_results, carry contiguous positions starting at 1.
C3_Positions ==
    /\ ScanReturned => \A i \in DOMAIN all_ads : all_ads[i].position = i
    /\ (service = "adspy" /\ response.status = 200) => \A i \in DOMAIN response.ads : response.ads[i].position = i

\* C3 witness: a successful response that holds at least two ads and fewer
\* ads than the scan returned, after a scan that ended on a navigation error
C3_Witness == service = "adspy" /\ response.status = 200 /\ response.success /\ Len(response.ads) >= 2 /\ Len(response.ads) < Len(all_ads) /\ NavFailed

\* C4: Self-link rejection. No returned ad has a link whose host is the host
\* of the search engine that was scanned for the request's location.
C4_NoSelfLink == ScanReturned => \A i \in DOMAIN all_ads : Netloc(all_ads[i].link) # Netloc(google_home(request.location))

\* C5: Sitelink bound. Every ad extract_modern_ad_data returns has at most 6
\* sitelinks, with pairwise distinct titles, none of them equal to the ad's
\* own title, all titles taken as stored (stripped).
C5_SitelinkBound ==
    (pc = "extracted" /\ ad_out # NoAd /\ "sitelinks" \in DOMAIN ad_out) =>
        /\ Len(ad_out.sitelinks) <= 6
        /\ \A i, j \in DOMAIN ad_out.sitelinks : i # j => ad_out.sitelinks[i].title # ad_out.sitelinks[j].title
        /\ \A i \in DOMAIN ad_out.sitelinks : ad_out.sitelinks[i].title # ad_out.title

\* C6: Partial-enrichment tolerance. capture_landing_screenshots keeps all N
\* ads in order with their other fields unchanged; it captures them one after
\* the other, whatever the earlier captures did; an ad whose capture raised
\* has an empty screenshot field and the error text, an ad whose capture
\* succeeded has an image and no error; the ads not yet reached are untouched;
\* and the response of a completed batch holds all N ads.
C6_PartialEnrichment ==
    (service = "adspy" /\ capBrowser # "none") =>
        LET given == limit_results(all_ads, request.num_results)
        IN  /\ Len(ads) = Len(given)
            /\ \A i \in DOMAIN ads : scan_fields(ads[i]) = given[i]
            /\ Len(capLog) = (IF pc \in {"capture_open", "capture_page"} THEN capIdx - 1 ELSE Len(ads))
            /\ \A k \in DOMAIN capLog :
                /\ capLog[k].idx = k
                /\ (capLog[k].outcome # "ok" =>
                      /\ "landing_page_screenshot_base64" \in DOMAIN ads[k] /\ ads[k].landing_page_screenshot_base64 = None
                      /\ "screenshot_error" \in DOMAIN ads[k] /\ ads[k].screenshot_error = capLog[k].outcome /\ ads[k].screenshot_error # "")
                /\ (capLog[k].outcome = "ok" =>
                      /\ "landing_page_screenshot_base64" \in DOMAIN ads[k] /\ ads[k].landing_page_screenshot_base64 \notin {None, ""}
                      /\ "screenshot_error" \notin DOMAIN ads[k])
            /\ \A i \in DOMAIN ads : i > Len(capLog) => ads[i] = given[i]
            /\ (response.status = 200 /\ response.success) => response.ads = ads

\* C6 witness: a completed batch of at least three ads in which the first
\* capture failed at navigation, the second at the screenshot, and the third
\* succeeded
C6_Witness == service = "adspy" /\ response.status = 200 /\ response.success /\ Len(response.ads) >= 3 /\ Len(capLog) >= 3 /\ capLog[1].outcome = "Page.goto: Timeout 20000ms exceeded" /\ capLog[2].outcome = "Page.screenshot: failed" /\ capLog[3].outcome = "ok"

\* C7: Transient navigation retry. When the scan gives up on a result page
\* whose navigation timed out, that page has been attempted three times.
C7_RetriesTransient == (LoopLeft /\ NavFailed /\ navLog[Len(navLog)].page >= 0 /\ Contains(navLog[Len(navLog)].outcome, "Timeout")) => Cardinality({k \in DOMAIN navLog : navLog[k].page = navLog[Len(navLog)].page}) = 3

\* C8: Navigation failure degrades. A navigation that raised is the last
\* navigation of the scan; the scan returns exactly the ads merged before it,
\* with positions; the failure is never the error of the response; and the
\* successful response holds those ads, cut to num_results.
C8_NavFailureKeepsAds ==
    /\ service = "adspy" => \A k \in DOMAIN navLog : navLog[k].outcome # "ok" => k = Len(navLog)
    /\ (NavFailed /\ ~ScanReturned) => all_ads = navLog[Len(navLog)].merged
    /\ (NavFailed /\ ScanReturned) => all_ads = assign_positions(navLog[Len(navLog)].merged)
    /\ (NavFailed /\ response.status # 0) =>
          /\ response.status = 200
          /\ response.error # navLog[Len(navLog)].outcome
          /\ (response.success => [i \in DOMAIN response.ads |-> scan_fields(response.ads[i])] = limit_results(assign_positions(navLog[Len(navLog)].merged), request.num_results))
          /\ (~response.success => response.error \in {"Browser.close: failed", "BrowserType.launch: failed"})

\* C8 witness: result page 1 failed on a rate limit after page 0 gave ads,
\* and the response is a success with at least two ads
C8_Witness == NavFailed /\ navLog[Len(navLog)].page = 1 /\ navLog[Len(navLog)].outcome = "net::ERR_TOO_MANY_REQUESTS" /\ response.status = 200 /\ response.success /\ Len(response.ads) >= 2

\* C9: Bounded paging. The result pages are navigated in the order 0, 1, 2,
\* ... with start = 10 * page index in the URL, at most max_pages of them, and
\* none is navigated once a page's merge has left 10 or more ads.
C9_BoundedPaging ==
    service = "adspy" =>
        LET navs == result_navs(navLog)
        IN  /\ Len(navs) <= MaxPages
            /\ \A k \in DOMAIN navs :
                /\ navs[k].page = k - 1
                /\ navs[k].start = 10 * navs[k].page
                /\ navs[k].url = search_url(request.location, 10 * (k - 1))
                /\ Len(navs[k].merged) < 10

\* C9 witness: the loop ended after page 0 alone because its merge left 10
\* or more ads
C9_Witness == LoopLeft /\ ~NavFailed /\ Len(result_navs(navLog)) = 1 /\ Len(all_ads) >= 10

\* C10: Auth before work. For a request whose api_key is not the configured
\* key: /search launches no browser and navigates nothing and answers 401;
\* /info, /download and /download-url start no extraction and answer 401.
C10_AuthBeforeWork ==
    /\ (service = "adspy" /\ request.api_key # ADSPY_API_KEY) =>
          /\ scanBrowser = "none" /\ capBrowser = "none" /\ navLog = << >> /\ stratLog = << >>
          /\ response.status \in {0, 401}
          /\ (pc = "done" => response.status = 401)
    /\ service = "ytdl" =>
          \A r \in DOMAIN dlReq : dlReq[r].api_key # API_KEY =>
              /\ \A k \in DOMAIN dlLog : dlLog[k].req # r
              /\ dlResp[r] \in {0, 401}
              /\ dlInfo[r] = None /\ dlFile[r] = None
              /\ (dlPc[r] = "done" => dlResp[r] = 401)

\* C10 witness: a /search request with a wrong key has been answered
C10_Witness == service = "adspy" /\ request.api_key # ADSPY_API_KEY /\ pc = "done" /\ response.status = 401

\* the keys and values the stages of /search have written to the trace by the
\* time the scan has made the navigations of navLog (the counters
\* pages_scanned and raw_ads_found are overwritten, so only their presence is
\* listed here)
trace_written(k) ==
    \/ k \in {"method", "pages_scanned", "raw_ads_found"}
    \/ k = "visiting_homepage" /\ navLog # << >>
    \/ k = "user_agent" /\ result_navs(navLog) # << >>
    \/ \E n \in DOMAIN navLog : navLog[n].page >= 0 /\ k = "url_page_" \o ToString(navLog[n].page)
    \/ k = "serp_screenshot_base64" /\ \E n \in DOMAIN navLog : navLog[n].page = 0 /\ navLog[n].outcome = "ok"
    \/ k = "scan_error" /\ NavFailed
    \/ k = "ads_after_processing" /\ ads # << >>

\* C11: Total-failure response. A response with success=false has no ads and
\* a non-empty error text; its debug_info is the trace with the traceback
\* added, and holds every entry the stages wrote before the failure (the
\* homepage, each page URL as navigated, the user agent, the page-0
\* screenshot, the scan error); and no step of /search removes a key from the
\* trace.
C11_TotalFailure ==
    /\ [](( service = "adspy" /\ response.status = 200 /\ ~response.success) =>
            /\ response.ads = << >>
            /\ response.error \notin {None, ""}
            /\ response.debug_info = debug_info
            /\ "error_traceback" \in DOMAIN response.debug_info
            /\ \A k \in {"method", "pages_scanned", "raw_ads_found", "visiting_homepage", "user_agent", "url_page_0", "url_page_1", "url_page_2", "serp_screenshot_base64", "scan_error", "ads_after_processing"} : trace_written(k) => k \in DOMAIN response.debug_info
            /\ \A n \in DOMAIN navLog : navLog[n].page >= 0 => response.debug_info["url_page_" \o ToString(navLog[n].page)] = navLog[n].url
            /\ (navLog # << >> => response.debug_info["visiting_homepage"] = google_home(request.location))
            /\ (NavFailed => response.debug_info["scan_error"] = navLog[Len(navLog)].outcome))
    /\ [][service = "adspy" => \A k \in DOMAIN debug_info : k \in DOMAIN debug_info']_vars

\* C11 witness: the browser of the screenshot stage failed to close after two
\* result pages were scanned and the captures ran, and the request was
\* answered with success=false
C11_Witness == service = "adspy" /\ response.status = 200 /\ ~response.success /\ capLog # << >> /\ Len(result_navs(navLog)) >= 2 /\ "ads_after_processing" \in DOMAIN response.debug_info

\* C12: Scoped release of capture contexts. When the capture of the next ad
\* begins, and when the loop is over, no capture page is open; at no point is
\* more than one capture page open.
C12_ScopedRelease == service = "adspy" => (openPages <= 1 /\ (pc \in {"capture_open", "capture_finish"} => openPages = 0))

\* the value of the first field of the URL named `name` that carries a value,
\* None when the URL has none
carried(parts, name) == LET hits == {i \in DOMAIN parts.fields : parts.fields[i].name = name /\ parts.fields[i].value # ""} IN IF hits = {} THEN None ELSE parts.fields[CHOOSE i \in hits : \A j \in hits : i <= j].value

\* the first of the names, in the order given, that the URL carries
RECURSIVE by_priority(_, _)
by_priority(parts, names) == IF names = << >> THEN None ELSE IF carried(parts, Head(names)) # None THEN carried(parts, Head(names)) ELSE by_priority(parts, Tail(names))

\* C13: Redirect resolution. For a URL of Google's ad-click redirect that
\* carries a value for adurl, dest or url, extract_real_url returns the value
\* of the first of these, in this priority order, that it carries; for a URL
\* of Google's generic redirect, the same with url, then q; for every other
\* URL, and for a redirect URL that carries none of its candidates, it
\* returns the input as it is. (A parameter is carried when it is written
\* with a non-empty value; its value is the text it encodes.)
C13_RedirectResolution ==
    (pc = "resolved") =>
        LET candidates == CASE url_parts.base = "https://www.google.com/aclk" -> <<"adurl", "dest", "url">>
                            [] url_parts.base = "https://www.google.com/url" -> <<"url", "q">>
                            [] OTHER -> << >>
            dest == by_priority(url_parts, candidates)
        IN  real_url = IF dest # None THEN dest ELSE given_url

\* C13 witness: an ad-click redirect written with url before dest and without
\* adurl was resolved to the value of dest
C13_Witness == pc = "resolved" /\ url_parts.base = "https://www.google.com/aclk" /\ Len(url_parts.fields) = 2 /\ url_parts.fields[1].name = "url" /\ url_parts.fields[2].name = "dest" /\ real_url = "https://b.example/y"

\* what one headline sub-selector yields by itself: the link of its href and
\* its text
head_link(h) == IF h.found /\ h.href # "" /\ Contains(h.href, "google.com/aclk") THEN extract_real_url(h.href) ELSE IF h.found /\ h.href # "" /\ StartsWith(h.href, "http") THEN h.href ELSE ""
head_text(h) == IF ~h.found THEN "" ELSE IF h.has_h3 THEN h.h3 ELSE h.text
yields_both(h) == head_link(h) # "" /\ head_text(h) # ""

\* C14: Headline selection. The link and the title of an extracted ad that
\* has a title are those of one headline sub-selector, the first in priority
\* order that yields both a link and a text.
C14_HeadlineSameSelector ==
    (pc = "extracted" /\ ad_out # NoAd /\ ad_out.title # "") =>
        \E i \in DOMAIN element.heads :
            /\ yields_both(element.heads[i])
            /\ \A j \in 1..(i - 1) : ~yields_both(element.heads[j])
            /\ ad_out.link = head_link(element.heads[i])
            /\ ad_out.title = strip(head_text(element.heads[i]))

\* the ads of `found`, in its order, whose link is neither in `all` nor
\* earlier in `found`
fresh(all, found) ==
    LET keep == {i \in DOMAIN found : (\A k \in DOMAIN all : all[k].link # found[i].link) /\ (\A j \in 1..(i - 1) : found[j].link # found[i].link)}
        nth(r) == CHOOSE i \in keep : Cardinality({j \in keep : j < i}) = r - 1
    IN  [r \in 1..Cardinality(keep) |-> found[nth(r)]]

\* the result pages whose navigation returned
pages_loaded == Cardinality({n \in DOMAIN navLog : navLog[n].page >= 0 /\ navLog[n].outcome = "ok"})

\* the strategies of the current page that have not run yet
strategies_pending == CASE pc = "method1" -> 3 [] pc = "method2" -> 2 [] pc = "method3" -> 1 [] OTHER -> 0

\* C15: Strategy union and merge order. The strategy runs are, page after
\* page, methods 1, 2, 3 in this order, three for every result page whose
\* navigation returned, whatever the earlier ones found and however many ads
\* are merged; and every run appends to the list, after all ads found before,
\* the ads it found that are new, in the order it found them.
C15_StrategyUnion ==
    /\ [](service = "adspy" =>
            /\ \A k \in DOMAIN stratLog : stratLog[k] = <<(k - 1) \div 3, ((k - 1) % 3) + 1>>
            /\ Len(stratLog) = 3 * pages_loaded - strategies_pending)
    /\ [][(service = "adspy" /\ stratLog' # stratLog) => all_ads' = all_ads \o fresh(all_ads, found_ads')]_vars

\* C15 witness: on page 0 method 1 found two ads and method 2 nine more, so
\* the ceiling was reached, and method 3 still ran and found the nine again
C15_Witness == service = "adspy" /\ pc = "finally" /\ Len(stratLog) = 3 /\ Len(all_ads) = 11 /\ Len(found_ads) = 9 /\ all_ads[1].link = Link("a.example", 1) /\ all_ads[3] = found_ads[1]

\* C16: First discovery wins. The running list holds pairwise distinct
\* links at every point; a merge step leaves every ad of the list as it is
\* and where it is, and leaves the whole list unchanged when every candidate's
\* link is already in it; no later step removes or moves an ad (the position
\* loop at the end of the scan writes the position field alone).
C16_FirstDiscoveryWins ==
    /\ [](service = "adspy" => \A i, j \in DOMAIN all_ads : i # j => all_ads[i].link # all_ads[j].link)
    /\ [][service = "adspy" =>
            /\ Len(all_ads') >= Len(all_ads)
            /\ \A i \in DOMAIN all_ads : IF stratLog' # stratLog THEN all_ads'[i] = all_ads[i] ELSE [all_ads'[i] EXCEPT !.position = 0] = [all_ads[i] EXCEPT !.position = 0]
            /\ (stratLog' # stratLog /\ \A c \in DOMAIN found_ads' : \E i \in DOMAIN all_ads : all_ads[i].link = found_ads'[c].link) => all_ads' = all_ads]_vars

\* C16 witness: a strategy on page 1 found the link of an ad of page 0 under
\* another title next to a new ad; the ad of page 0 is still first, with its
\* title, and the new ad was appended
C16_Witness == service = "adspy" /\ page_num = 1 /\ Len(found_ads) = 2 /\ found_ads[1].link = Link("a.example", 1) /\ found_ads[1].title = "Shoes" /\ Len(all_ads) >= 3 /\ all_ads[1].link = Link("a.example", 1) /\ all_ads[1].title = "Boots" /\ all_ads[1].block_position = "top" /\ all_ads[Len(all_ads)].link = Link("www.google.co.uk", 4)

\* C17: Result limit. A successful response holds at most num_results ads
\* (none for a num_results below 1), and they are the first ads of the list
\* the scan returned, in its order.
C17_ResultLimit ==
    (service = "adspy" /\ response.status = 200 /\ response.success) =>
        /\ Len(response.ads) <= (IF request.num_results > 0 THEN request.num_results ELSE 0)
        /\ Len(response.ads) <= Len(all_ads)
        /\ \A i \in DOMAIN response.ads : scan_fields(response.ads[i]) = all_ads[i]

\* C18: Downloader error codes. A request whose extraction returned no info
\* is answered 404, one whose extraction raised DownloadError 400, and a
\* /download-url request with info is answered 200 or 404 (no download URL);
\* 500 is answered only after another exception of the extraction or, in
\* /download, when the file is missing.
C18_DownloaderErrorCodes ==
    service = "ytdl" =>
        \A r \in DOMAIN dlReq : dlResp[r] # 0 =>
            /\ dlInfo[r] = "none" => dlResp[r] = 404
            /\ dlInfo[r] = "DownloadError" => dlResp[r] = 400
            /\ (dlInfo[r] = "info" /\ dlReq[r].endpoint = "/download-url") => dlResp[r] \in {200, 404}
            /\ dlResp[r] = 500 => (dlInfo[r] = "error" \/ (dlInfo[r] = "info" /\ dlReq[r].endpoint = "/download"))

\* C19: Download file lifetime under concurrency. The file a /download
\* request has located exists until its response has been sent: while the
\* request waits to be sent the file is there, and no response is sent from a
\* missing file.
C19_FileOutlivesResponse ==
    service = "ytdl" =>
        /\ \A r \in DOMAIN dlReq : dlPc[r] = "sending" => dlFile[r] \in files
        /\ \A k \in DOMAIN dlLog : dlLog[k].event # "missing"

====
